---- MODULE Spec2Model ----
(***************************************************************************)
(* Model of audio-transcriber's chunked transcription pipeline             *)
(* (src/src/main.rs): handle_transcription partitions the sample buffer    *)
(* into windows, runs the whisper engine on each window, re-bases the      *)
(* engine's window-local segment times with a running offset, and then     *)
(* writes the SRT file, the timestamped transcript and the raw transcript. *)
(*                                                                         *)
(* Text is modelled as a sequence of one-character strings, so that        *)
(* formatting and concatenation are computed character by character.       *)
(* The sample values themselves are opaque to the program (only the engine *)
(* reads them), so a window is modelled by its sample range.               *)
(***************************************************************************)
EXTENDS Integers, Sequences, FiniteSets, TLC

(* ---------------------------------------------------------------- bounds *)

\* Largest number of windows a buffer of the pipeline specification has.
MaxWindows == 2

\* Largest number of segments the engine returns for one window.
MaxSegs == 2

\* Buffer lengths and window lengths of the partition specification.
MaxLen == 9

MaxChunk == 4

\* The time specification renders every centisecond value up to this one,
\* besides the sampled values of TimeSamples.
MaxSmallCs == 120

(* ------------------------------------------------------------- constants *)

\* main.rs:367  const SAMPLE_RATE: usize = 16000;
SAMPLE_RATE == 16000

\* main.rs:368  const CHUNK_SIZE: usize = 30 * SAMPLE_RATE;
CHUNK_SIZE == 30 * SAMPLE_RATE

VARIABLES
    samples_len,     \* samples.len() of the buffer handed to handle_transcription
    chunk_size,      \* the chunk_size argument
    pc,              \* position of the run
    sample_batches,  \* the collected windows, each a sample range [start, end)
    next_batch,      \* 1-based index of the window the for loop takes next
    subtitles,       \* the accumulated Vec<Subtitle>
    seq_number,      \* next subtitle number
    total_cs,        \* the running offset in centiseconds
    engine_log,      \* history: one entry per state.full() call
    files,           \* the three output files, by path
    run_error,       \* the error main reports before exit(1)
    cs_in,           \* input of cs_to_srt_time in the time specification
    srt_time         \* its rendering

vars == <<samples_len, chunk_size, pc, sample_batches, next_batch, subtitles,
          seq_number, total_cs, engine_log, files, run_error, cs_in, srt_time>>

(* ------------------------------------------------------------ characters *)

Min(a, b) == IF a < b THEN a ELSE b

Digit(d) == <<"0", "1", "2", "3", "4", "5", "6", "7", "8", "9">>[d + 1]

\* "{}" of an unsigned integer: its decimal digits.
RECURSIVE Decimal(_)
Decimal(n) == IF n < 10 THEN <<Digit(n)>>
              ELSE Decimal(n \div 10) \o <<Digit(n % 10)>>

\* "{:0w}" of an unsigned integer: zero-padded on the left to at least w characters.
RECURSIVE ZeroPad(_, _)
ZeroPad(s, w) == IF Len(s) >= w THEN s ELSE ZeroPad(<<"0">> \o s, w)

Pad2(n) == ZeroPad(Decimal(n), 2)

Pad3(n) == ZeroPad(Decimal(n), 3)

RECURSIVE Flatten(_)
Flatten(ss) == IF ss = <<>> THEN <<>> ELSE Head(ss) \o Flatten(Tail(ss))

(* ------------------------------------------------------- time formatting *)

\* A version of cs_to_srt_time that forgets to scale centiseconds to milliseconds.
cs_to_srt_time_unscaled(cs) ==
    LET seconds == cs \div 100
        milliseconds == cs % 100
        hours == (seconds \div 3600) % 24
        minutes == (seconds % 3600) \div 60
        secs == seconds % 60
    IN  Pad2(hours) \o <<":">> \o Pad2(minutes) \o <<":">> \o Pad2(secs)
            \o <<",">> \o Pad3(milliseconds)

\* main.rs:158-165
cs_to_srt_time(cs) ==
    LET seconds == cs \div 100
        milliseconds == (cs % 100) * 10
        hours == (seconds \div 3600) % 24
        minutes == (seconds % 3600) \div 60
        secs == seconds % 60
    IN  Pad2(hours) \o <<":">> \o Pad2(minutes) \o <<":">> \o Pad2(secs)
            \o <<",">> \o Pad3(milliseconds)

\* main.rs:167-171  "{}\n{} --> {}\n{}\n"
subtitle_to_srt(sub) ==
    Decimal(sub.seq) \o <<"\n">>
        \o cs_to_srt_time(sub.start_time_cs) \o <<" ", "-", "-", ">", " ">>
        \o cs_to_srt_time(sub.end_time_cs) \o <<"\n">>
        \o sub.text \o <<"\n">>

\* main.rs:268-273  "[{} --> {}]: {}\n"
timestamp_line(sub) ==
    <<"[">> \o cs_to_srt_time(sub.start_time_cs) \o <<" ", "-", "-", ">", " ">>
        \o cs_to_srt_time(sub.end_time_cs) \o <<"]", ":", " ">>
        \o sub.text \o <<"\n">>

(* ------------------------------------------------------------- partition *)

\* slice::chunks as chunks_exact would do it: the trailing partial window is dropped.
RECURSIVE ChunksExactFrom(_, _, _)
ChunksExactFrom(pos, len, size) ==
    IF pos + size > len THEN <<>>
    ELSE <<[start |-> pos, end |-> pos + size]>> \o ChunksExactFrom(pos + size, len, size)

\* A partition that yields one (empty) window for an empty buffer.
RECURSIVE ChunksAtLeastOneFrom(_, _, _)
ChunksAtLeastOneFrom(pos, len, size) ==
    LET n == Min(len - pos, size)
    IN  IF pos + n >= len THEN <<[start |-> pos, end |-> pos + n]>>
        ELSE <<[start |-> pos, end |-> pos + n]>> \o ChunksAtLeastOneFrom(pos + n, len, size)

\* main.rs:204  samples.chunks(chunk_size): the iterator yields the next
\* min(remaining, chunk_size) samples until none remain.
RECURSIVE ChunksFrom(_, _, _)
ChunksFrom(pos, len, size) ==
    IF pos >= len THEN <<>>
    ELSE LET n == Min(len - pos, size)
         IN  <<[start |-> pos, end |-> pos + n]>> \o ChunksFrom(pos + n, len, size)

ChunksExact(len, size) == ChunksExactFrom(0, len, size)

ChunksAtLeastOne(len, size) == ChunksAtLeastOneFrom(0, len, size)

\* main.rs:204  samples.chunks(chunk_size).collect::<Vec<_>>()
Chunks(len, size) == ChunksFrom(0, len, size)

(* ---------------------------------------------------------------- engine *)

\* A byte the engine returns that is not valid UTF-8, and what
\* String::from_utf8_lossy puts in its place.
InvalidByte == "\\xFF"

ReplacementChar == "U+FFFD"

\* main.rs:230  String::from_utf8_lossy(&bytes).to_string()
FromUtf8Lossy(bytes) ==
    [i \in 1..Len(bytes) |-> IF bytes[i] = InvalidByte THEN ReplacementChar ELSE bytes[i]]

\* Duration of a window's audio in centiseconds (its sample count at 16 kHz).
TrueDurationCs(w) == ((w.end - w.start) * 100) \div SAMPLE_RATE

\* Segments whisper may report for a window: t0 and t1 are centiseconds from
\* the start of the window and lie within the 30 s the engine decodes.
SegmentChoices ==
    { [t0 |-> 0, t1 |-> 1500, bytes |-> <<"h", "e", "l", "l", "o">>],
      [t0 |-> 1500, t1 |-> 3000, bytes |-> <<" ", "a">>] }

SeqsUpTo(S, n) == UNION { [1..k -> S] : k \in 0..n }

\* A deterministic engine stub: one segment per window, spanning the window.
StubOutputs(w) ==
    { <<[t0 |-> 0, t1 |-> TrueDurationCs(w), bytes |-> <<"x", InvalidByte>>]>> }

\* What state.full() followed by the full_get_segment_* calls can return: any
\* sequence of segments, in any order, or the single segment spanning the window.
EngineOutputs(w) == SeqsUpTo(SegmentChoices, MaxSegs) \cup StubOutputs(w)

\* The errors state.full() can return (whisper_rs::WhisperError).
WhisperErrors == {"FailedToDecode", "GenericError"}

(* -------------------------------------------------------------- stitcher *)

\* The window duration computed in seconds instead of centiseconds.
ChunkCsInSeconds(size) == size \div 16000

\* The window duration divided, not multiplied, by 100.
ChunkCsDivided(size) == (size \div 16000) \div 100

\* main.rs:244  (chunk_size as f32 / 16000.0 * 100.0) as i64
\* The f32 quotient and product are exact for the sizes used here; the cast truncates.
ChunkCs(size) == (size * 100) \div 16000

\* A subtitle that keeps the window-local start time.
SubtitleNotRebased(seqno, seg, offset) ==
    [seq |-> seqno,
     start_time_cs |-> seg.t0,
     end_time_cs |-> seg.t1 + offset,
     text |-> FromUtf8Lossy(seg.bytes)]

\* main.rs:229-239
Subtitle(seqno, seg, offset) ==
    [seq |-> seqno,
     start_time_cs |-> seg.t0 + offset,
     end_time_cs |-> seg.t1 + offset,
     text |-> FromUtf8Lossy(seg.bytes)]

\* A push loop whose numbering starts again at 1 for every window.
PushSegmentsRenumbered(subs, seqno, offset, segs, n) ==
    subs \o [i \in 1..n |-> Subtitle(i, segs[i], offset)]

\* main.rs:228-242  the first n segments of segs pushed onto subs
PushSegments(subs, seqno, offset, segs, n) ==
    subs \o [i \in 1..n |-> Subtitle(seqno + i - 1, segs[i], offset)]

(* ----------------------------------------------------------------- files *)

\* main.rs:251-254, 261-264, 174-177; the input's file stem is "audio".
SrtFilePath == "audio_timestamps.srt"

\* The timestamps path built with the SRT file's suffix.
TimestampsFilePathAsSrt == "audio_timestamps.srt"

TimestampsFilePath == "audio_timestamps.txt"

RawFilePath == "audio_raw.txt"

OutputPaths == {SrtFilePath, TimestampsFilePath, RawFilePath}

Absent == [state |-> "absent", content |-> <<>>]

\* The file at a path after File::create succeeded and the first n entries
\* were written: complete when every entry was.
Written(entries, n) ==
    [state |-> IF n = Len(entries) THEN "complete" ELSE "partial",
     content |-> Flatten(SubSeq(entries, 1, n))]

SrtEntries(subs) == [i \in 1..Len(subs) |-> subtitle_to_srt(subs[i])]

TimestampEntries(subs) == [i \in 1..Len(subs) |-> timestamp_line(subs[i])]

\* main.rs:179-181  write_all(sub.text.as_bytes()) per subtitle
RawEntries(subs) == [i \in 1..Len(subs) |-> subs[i].text]

NoError == [stage |-> "none"]

(* ------------------------------------------------------------------ init *)

\* Lengths of the short final window, in samples (0: none).
PartialLens == {0, 1, 160000}

\* Buffers of at most MaxWindows windows.
BufferLens ==
    { k * CHUNK_SIZE + r : k \in 0..(MaxWindows - 1), r \in PartialLens }
        \cup { MaxWindows * CHUNK_SIZE }

TimeSamples ==
    { h * 360000 + m * 6000 + s * 100 + c :
        h \in {0, 1, 9, 10, 23, 24, 25}, m \in {0, 9, 10, 59}, s \in {0, 9, 10, 59},
        c \in {0, 1, 9, 10, 50, 99} }
        \cup 0..MaxSmallCs

PipelineStart ==
    /\ pc = "begin"
    /\ sample_batches = <<>>
    /\ next_batch = 1
    /\ subtitles = <<>>
    /\ seq_number = 1
    /\ total_cs = 0
    /\ engine_log = <<>>
    /\ files = [p \in OutputPaths |-> Absent]
    /\ run_error = NoError

\* main.rs:371  handle_transcription(whisper_path, samples, CHUNK_SIZE, ...)
Init ==
    /\ samples_len \in BufferLens
    /\ chunk_size = CHUNK_SIZE
    /\ PipelineStart
    /\ cs_in = 0
    /\ srt_time = <<>>

(* --------------------------------------------------------------- actions *)

\* main.rs:192-200  WhisperContext::new_with_params or create_state fails
ContextFails ==
    /\ pc = "begin"
    /\ \E e \in WhisperErrors :
          run_error' = [stage |-> "context", cause |-> e]
    /\ pc' = "exit1"
    /\ UNCHANGED <<samples_len, chunk_size, sample_batches, next_batch, subtitles,
                   seq_number, total_cs, engine_log, files, cs_in, srt_time>>

\* main.rs:192-220  the context is created, the buffer partitioned, the
\* accumulators initialised
Begin ==
    /\ pc = "begin"
    /\ sample_batches' = Chunks(samples_len, chunk_size)
    /\ next_batch' = 1
    /\ subtitles' = <<>>
    /\ seq_number' = 1
    /\ total_cs' = 0
    /\ pc' = "loop"
    /\ UNCHANGED <<samples_len, chunk_size, engine_log, files, run_error, cs_in, srt_time>>

\* A loop that drops the engine's error and goes on with the next window.
FullFailsSwallowed ==
    /\ pc = "loop"
    /\ next_batch <= Len(sample_batches)
    /\ engine_log' = Append(engine_log,
            [window |-> next_batch - 1, range |-> sample_batches[next_batch],
             ok |-> FALSE, segments |-> <<>>])
    /\ run_error' = [stage |-> "full", cause |-> "GenericError"]
    /\ next_batch' = next_batch + 1
    /\ UNCHANGED <<samples_len, chunk_size, pc, sample_batches, subtitles,
                   seq_number, total_cs, files, cs_in, srt_time>>

\* main.rs:223-225 with main.rs:373-376  state.full() fails: the error is
\* wrapped as io::Error(Other, e), returned, printed by main, exit(1)
FullFails ==
    /\ pc = "loop"
    /\ next_batch <= Len(sample_batches)
    /\ \E e \in WhisperErrors :
          /\ engine_log' = Append(engine_log,
                [window |-> next_batch - 1, range |-> sample_batches[next_batch],
                 ok |-> FALSE, segments |-> <<>>])
          /\ run_error' = [stage |-> "full", cause |-> e]
    /\ pc' = "exit1"
    /\ UNCHANGED <<samples_len, chunk_size, sample_batches, next_batch, subtitles,
                   seq_number, total_cs, files, cs_in, srt_time>>

\* main.rs:222-246  one iteration of the for loop over a window for which the
\* engine returns segs
ProcessWindow(segs) ==
    /\ pc = "loop"
    /\ next_batch <= Len(sample_batches)
    /\ engine_log' = Append(engine_log,
            [window |-> next_batch - 1, range |-> sample_batches[next_batch],
             ok |-> TRUE, segments |-> segs])
    /\ subtitles' = PushSegments(subtitles, seq_number, total_cs, segs, Len(segs))
    /\ seq_number' = seq_number + Len(segs)
    /\ total_cs' = total_cs + ChunkCs(chunk_size)
    /\ next_batch' = next_batch + 1
    /\ UNCHANGED <<samples_len, chunk_size, pc, sample_batches, files, run_error,
                   cs_in, srt_time>>

TranscribeWindow ==
    \E segs \in EngineOutputs(IF next_batch <= Len(sample_batches)
                              THEN sample_batches[next_batch]
                              ELSE [start |-> 0, end |-> 0]) :
        ProcessWindow(segs)

TranscribeWindowStub ==
    \E segs \in StubOutputs(IF next_batch <= Len(sample_batches)
                            THEN sample_batches[next_batch]
                            ELSE [start |-> 0, end |-> 0]) :
        ProcessWindow(segs)

\* main.rs:227-232  state.full() succeeded but full_n_segments (n = 0) or a
\* segment getter of segment n + 1 fails: the n subtitles pushed so far stay
\* in the vector, the error is returned, main exits with status 1
SegmentQueryFails ==
    /\ pc = "loop"
    /\ next_batch <= Len(sample_batches)
    /\ \E segs \in EngineOutputs(sample_batches[next_batch]) :
       \E n \in 0..Len(segs) :
       \E e \in WhisperErrors :
          /\ n < Len(segs) \/ segs = <<>>
          /\ engine_log' = Append(engine_log,
                [window |-> next_batch - 1, range |-> sample_batches[next_batch],
                 ok |-> TRUE, segments |-> segs])
          /\ subtitles' = PushSegments(subtitles, seq_number, total_cs, segs, n)
          /\ seq_number' = seq_number + n
          /\ run_error' = [stage |-> "segment", cause |-> e]
    /\ pc' = "exit1"
    /\ UNCHANGED <<samples_len, chunk_size, sample_batches, next_batch, total_cs,
                   files, cs_in, srt_time>>

\* main.rs:250-258  the SRT file is created and every entry written
WriteSrt ==
    /\ pc = "loop"
    /\ next_batch > Len(sample_batches)
    /\ files' = [files EXCEPT ![SrtFilePath] =
                    Written(SrtEntries(subtitles), Len(subtitles))]
    /\ pc' = "timestamps"
    /\ UNCHANGED <<samples_len, chunk_size, sample_batches, next_batch, subtitles,
                   seq_number, total_cs, engine_log, run_error, cs_in, srt_time>>

\* main.rs:255-258  File::create fails (n = 0: the path is left as it was) or
\* write_all of entry n fails after n - 1 entries were written
WriteSrtFails ==
    /\ pc = "loop"
    /\ next_batch > Len(sample_batches)
    /\ \E n \in 0..Len(subtitles) :
          files' = IF n = 0 THEN files
                   ELSE [files EXCEPT ![SrtFilePath] =
                            [state |-> "partial",
                             content |-> Flatten(SubSeq(SrtEntries(subtitles), 1, n - 1))]]
    /\ run_error' = [stage |-> "srt", cause |-> "io"]
    /\ pc' = "exit1"
    /\ UNCHANGED <<samples_len, chunk_size, sample_batches, next_batch, subtitles,
                   seq_number, total_cs, engine_log, cs_in, srt_time>>

\* main.rs:260-276
WriteTimestamps ==
    /\ pc = "timestamps"
    /\ files' = [files EXCEPT ![TimestampsFilePath] =
                    Written(TimestampEntries(subtitles), Len(subtitles))]
    /\ pc' = "raw"
    /\ UNCHANGED <<samples_len, chunk_size, sample_batches, next_batch, subtitles,
                   seq_number, total_cs, engine_log, run_error, cs_in, srt_time>>

\* main.rs:265-276
WriteTimestampsFails ==
    /\ pc = "timestamps"
    /\ \E n \in 0..Len(subtitles) :
          files' = IF n = 0 THEN files
                   ELSE [files EXCEPT ![TimestampsFilePath] =
                            [state |-> "partial",
                             content |-> Flatten(SubSeq(TimestampEntries(subtitles), 1, n - 1))]]
    /\ run_error' = [stage |-> "timestamps", cause |-> "io"]
    /\ pc' = "exit1"
    /\ UNCHANGED <<samples_len, chunk_size, sample_batches, next_batch, subtitles,
                   seq_number, total_cs, engine_log, cs_in, srt_time>>

\* main.rs:173-183 and 279-287  write_raw_transcript succeeds and
\* handle_transcription returns Ok
WriteRaw ==
    /\ pc = "raw"
    /\ files' = [files EXCEPT ![RawFilePath] =
                    Written(RawEntries(subtitles), Len(subtitles))]
    /\ pc' = "done"
    /\ UNCHANGED <<samples_len, chunk_size, sample_batches, next_batch, subtitles,
                   seq_number, total_cs, engine_log, run_error, cs_in, srt_time>>

\* main.rs:178-181 and 281-284  write_raw_transcript fails: eprintln, exit(1)
WriteRawFails ==
    /\ pc = "raw"
    /\ \E n \in 0..Len(subtitles) :
          files' = IF n = 0 THEN files
                   ELSE [files EXCEPT ![RawFilePath] =
                            [state |-> "partial",
                             content |-> Flatten(SubSeq(RawEntries(subtitles), 1, n - 1))]]
    /\ run_error' = [stage |-> "raw", cause |-> "io"]
    /\ pc' = "exit1"
    /\ UNCHANGED <<samples_len, chunk_size, sample_batches, next_batch, subtitles,
                   seq_number, total_cs, engine_log, cs_in, srt_time>>

Next ==
    \/ ContextFails
    \/ Begin
    \/ FullFails
    \/ TranscribeWindow
    \/ SegmentQueryFails
    \/ WriteSrt
    \/ WriteSrtFails
    \/ WriteTimestamps
    \/ WriteTimestampsFails
    \/ WriteRaw
    \/ WriteRawFails

Spec == Init /\ [][Next]_vars

(* ------------------------------------------- the partition specification *)

\* Any buffer length with any positive window length, the program's own
\* window length included; the engine is the stub.
PartInit ==
    /\ \E p \in ((0..MaxLen) \X (1..MaxChunk)) \cup (BufferLens \X {CHUNK_SIZE}) :
          /\ samples_len = p[1]
          /\ chunk_size = p[2]
    /\ PipelineStart
    /\ cs_in = 0
    /\ srt_time = <<>>

PartNext ==
    \/ Begin
    \/ TranscribeWindowStub

PartSpec == PartInit /\ [][PartNext]_vars

(* ------------------------------------------------ the time specification *)

TimeInit ==
    /\ cs_in \in TimeSamples
    /\ srt_time = <<>>
    /\ samples_len = 0
    /\ chunk_size = CHUNK_SIZE
    /\ PipelineStart

RenderTime ==
    /\ srt_time = <<>>
    /\ srt_time' = cs_to_srt_time(cs_in)
    /\ UNCHANGED <<cs_in, samples_len, chunk_size, pc, sample_batches, next_batch,
                   subtitles, seq_number, total_cs, engine_log, files, run_error>>

TimeNext == RenderTime

TimeSpec == TimeInit /\ [][TimeNext]_vars

(* ================================================================ claims *)

\* The nominal window duration in centiseconds: 30 s, i.e. 3000.
NominalWindowCs == (CHUNK_SIZE \div SAMPLE_RATE) * 100

\* Every window's segments were returned in non-decreasing local-start order.
EngineOrdered ==
    \A k \in 1..Len(engine_log) :
        LET segs == engine_log[k].segments
        IN  \A a, b \in 1..Len(segs) : a < b => segs[a].t0 <= segs[b].t0

\* The segments the engine returned so far, in order, each with its window index.
RECURSIVE Emitted(_)
Emitted(log) ==
    IF log = <<>> THEN <<>>
    ELSE LET last == log[Len(log)]
         IN  Emitted(SubSeq(log, 1, Len(log) - 1))
                \o [i \in 1..Len(last.segments) |->
                        [window |-> last.window, seg |-> last.segments[i]]]

RECURSIVE SumTrueDurations(_, _)
SumTrueDurations(batches, n) ==
    IF n = 0 THEN 0
    ELSE SumTrueDurations(batches, n - 1) + TrueDurationCs(batches[n])

\* C1: whenever the engine returned every window's segments in non-decreasing
\* local-start order, the start times of the accumulated subtitles are
\* non-decreasing in emission order, across window boundaries too.
C1_MonotonicContinuity ==
    EngineOrdered =>
        \A i \in 1..(Len(subtitles) - 1) :
            subtitles[i].start_time_cs <= subtitles[i + 1].start_time_cs

\* A finished run of two windows, the first returning two ordered segments
\* (the second of them late in the window), the second returning a segment
\* at local start 0.
C1_Witness ==
    /\ pc = "done"
    /\ EngineOrdered
    /\ Len(engine_log) = 2
    /\ Len(engine_log[1].segments) = 2
    /\ engine_log[1].segments[2].t0 = 1500
    /\ Len(engine_log[2].segments) >= 1
    /\ engine_log[2].segments[1].t0 = 0

\* C2: the i-th subtitle is the i-th segment the engine returned, with start
\* and end shifted by k * N for its window index k; the offset is 0 at first
\* and is N times the number of windows processed, whatever they returned.
C2_Rebasing ==
    LET em == Emitted(engine_log)
    IN  /\ Len(subtitles) <= Len(em)
        /\ run_error.stage # "segment" => Len(subtitles) = Len(em)
        /\ \A i \in 1..Len(subtitles) :
              /\ subtitles[i].start_time_cs = em[i].seg.t0 + em[i].window * NominalWindowCs
              /\ subtitles[i].end_time_cs = em[i].seg.t1 + em[i].window * NominalWindowCs
        /\ pc = "begin" => total_cs = 0
        /\ pc # "begin" => total_cs = (next_batch - 1) * NominalWindowCs

\* Window 0 returned no segment and window 1 returned (0, 1500, "hello"),
\* emitted as (3000, 4500).
C2_Witness ==
    /\ pc = "done"
    /\ Len(engine_log) = 2
    /\ engine_log[1].segments = <<>>
    /\ Len(subtitles) = 1
    /\ subtitles[1].start_time_cs = 3000
    /\ subtitles[1].end_time_cs = 4500
    /\ total_cs = 6000

\* The engine behaved as the stub: each call succeeded with exactly one
\* segment at local offsets [0, D), D the window's true duration, and every
\* returned segment was retrieved.
StubRun ==
    /\ run_error.stage # "segment"
    /\ \A k \in 1..Len(engine_log) :
          /\ engine_log[k].ok
          /\ Len(engine_log[k].segments) = 1
          /\ engine_log[k].segments[1].t0 = 0
          /\ engine_log[k].segments[1].t1 = TrueDurationCs(engine_log[k].range)

FinalWindowShort ==
    /\ sample_batches # <<>>
    /\ LET w == sample_batches[Len(sample_batches)]
       IN  w.end - w.start < chunk_size

\* C3: with the stub engine and a buffer whose final window is shorter than
\* the nominal length, the i-th subtitle starts at the sum of the true
\* durations of the windows before window i.
C3_OffsetCorrectness ==
    (StubRun /\ FinalWindowShort) =>
        /\ Len(subtitles) = Len(engine_log)
        /\ \A i \in 1..Len(subtitles) :
              subtitles[i].start_time_cs = SumTrueDurations(sample_batches, i - 1)

\* A finished stub run over 30 s + 10 s of audio: the second subtitle is (3000, 4000).
C3_Witness ==
    /\ pc = "done"
    /\ StubRun
    /\ FinalWindowShort
    /\ samples_len = CHUNK_SIZE + 160000
    /\ Len(subtitles) = 2
    /\ subtitles[2].start_time_cs = 3000
    /\ subtitles[2].end_time_cs = 4000

\* C4: the windows are contiguous, non-overlapping and non-empty, cover
\* [0, L) , number ceil(L / W), all have length W except the last, whose
\* length is L mod W (W when W divides L); they are handed to the engine in
\* that order.
C4_PartitionCoverage ==
    pc # "begin" =>
        LET b == sample_batches
            n == Len(sample_batches)
            L == samples_len
            W == chunk_size
        IN  /\ n = (L + W - 1) \div W
            /\ n > 0 => b[1].start = 0 /\ b[n].end = L
            /\ \A i \in 1..n : b[i].start < b[i].end
            /\ \A i \in 1..(n - 1) :
                  /\ b[i].end = b[i + 1].start
                  /\ b[i].end - b[i].start = W
            /\ n > 0 => b[n].end - b[n].start = (IF L % W = 0 THEN W ELSE L % W)
            /\ Len(engine_log) <= n
            /\ \A k \in 1..Len(engine_log) :
                  /\ engine_log[k].window = k - 1
                  /\ engine_log[k].range = b[k]

\* A buffer of 9 samples in windows of 4: three windows, the last of one
\* sample, all handed to the engine.
C4_Witness ==
    /\ samples_len = 9
    /\ chunk_size = 4
    /\ Len(sample_batches) = 3
    /\ Len(engine_log) = 3
    /\ engine_log[3].range = [start |-> 8, end |-> 9]

\* C5: a failed state.full() is the last call made to the engine, the run has
\* ended with that error, and none of the three output files was written.
C5_EngineFailureAborts ==
    \A k \in 1..Len(engine_log) :
        ~engine_log[k].ok =>
            /\ k = Len(engine_log)
            /\ pc = "exit1"
            /\ run_error.stage = "full"
            /\ \A p \in OutputPaths : files[p] = Absent

\* The engine failed on window 1 after window 0 had given subtitles.
C5_Witness ==
    /\ Len(engine_log) = 2
    /\ ~engine_log[2].ok
    /\ subtitles # <<>>
    /\ pc = "exit1"

\* The window index an error value carries, -1 when it carries none.
ErrorWindow(err) == IF "window" \in DOMAIN err THEN err.window ELSE -1

\* C6: the error surfaced for a failed state.full() identifies the zero-based
\* index of the window it failed on.
C6_ErrorNamesWindow ==
    run_error.stage = "full" =>
        ErrorWindow(run_error) = engine_log[Len(engine_log)].window

DigitValue(ch) == CHOOSE d \in 0..9 : Digit(d) = ch

IsDigit(ch) == \E d \in 0..9 : Digit(d) = ch

\* HH:MM:SS,mmm read back as centiseconds; -1 when the text has another shape.
SrtTimeToCs(s) ==
    IF /\ Len(s) = 12
       /\ s[3] = ":" /\ s[6] = ":" /\ s[9] = ","
       /\ \A i \in {1, 2, 4, 5, 7, 8, 10, 11, 12} : IsDigit(s[i])
    THEN LET hh == DigitValue(s[1]) * 10 + DigitValue(s[2])
             mm == DigitValue(s[4]) * 10 + DigitValue(s[5])
             ss == DigitValue(s[7]) * 10 + DigitValue(s[8])
             ms == DigitValue(s[10]) * 100 + DigitValue(s[11]) * 10 + DigitValue(s[12])
         IN  hh * 360000 + mm * 6000 + ss * 100 + ms \div 10
    ELSE -1

\* C7: for 0 <= c < 24 h, cs_to_srt_time(c) read back gives c.
C7_RoundTrip ==
    (srt_time # <<>> /\ cs_in < 8640000) => SrtTimeToCs(srt_time) = cs_in

\* The last centisecond of the day, rendered.
C7_Witness ==
    /\ cs_in = 8639999
    /\ srt_time = <<"2", "3", ":", "5", "9", ":", "5", "9", ",", "9", "9", "0">>

\* C8: over an empty buffer there is no window, no engine call and no
\* segment, no engine error, and a finished run leaves an empty raw transcript.
C8_EmptyInput ==
    samples_len = 0 =>
        /\ sample_batches = <<>>
        /\ engine_log = <<>>
        /\ subtitles = <<>>
        /\ run_error.stage \notin {"full", "segment"}
        /\ pc = "done" =>
              /\ run_error = NoError
              /\ files[RawFilePath] = [state |-> "complete", content |-> <<>>]

\* The run over the empty buffer finished without error.
C8_Witness ==
    /\ samples_len = 0
    /\ pc = "done"
    /\ run_error = NoError
    /\ files[RawFilePath].state = "complete"
    /\ files[RawFilePath].content = <<>>

IoStages == {"srt", "timestamps", "raw"}

\* The path each writing stage writes.
StagePath(stage) ==
    CASE stage = "srt" -> SrtFilePath
      [] stage = "timestamps" -> TimestampsFilePath
      [] stage = "raw" -> RawFilePath

RECURSIVE JoinWith(_, _)
JoinWith(texts, sep) ==
    IF texts = <<>> THEN <<>>
    ELSE IF Len(texts) = 1 THEN texts[1]
    ELSE texts[1] \o <<sep>> \o JoinWith(Tail(texts), sep)

\* C10: the raw transcript is the subtitles' texts in order with one
\* separator, a space or a newline throughout, between consecutive texts.
C10_RawSeparated ==
    files[RawFilePath].state = "complete" =>
        \E sep \in {" ", "\n"} :
            files[RawFilePath].content =
                JoinWith([i \in 1..Len(subtitles) |-> subtitles[i].text], sep)

\* The SRT entry expected at position i: the number i, the time range of the
\* i-th subtitle and its text.
NumberedEntry(i) ==
    Decimal(i) \o <<"\n">>
        \o cs_to_srt_time(subtitles[i].start_time_cs) \o <<" ", "-", "-", ">", " ">>
        \o cs_to_srt_time(subtitles[i].end_time_cs) \o <<"\n">>
        \o subtitles[i].text \o <<"\n">>

\* C11: the i-th accumulated subtitle carries number i (from 1, plus one per
\* emitted segment, across window boundaries and windows without segments),
\* the next number is one more than the count so far, and the SRT file lists
\* the entries numbered 1, 2, ... in emission order.
C11_SubtitleNumbering ==
    /\ \A i \in 1..Len(subtitles) : subtitles[i].seq = i
    /\ seq_number = Len(subtitles) + 1
    /\ LET em == Emitted(engine_log)
       IN  /\ Len(subtitles) <= Len(em)
           /\ \A i \in 1..Len(subtitles) :
                 subtitles[i].text = FromUtf8Lossy(em[i].seg.bytes)
    /\ files[SrtFilePath].state = "complete" =>
          files[SrtFilePath].content =
              Flatten([i \in 1..Len(subtitles) |-> NumberedEntry(i)])
    /\ files[SrtFilePath].state = "partial" =>
          \E n \in 0..(Len(subtitles) - 1) :
              files[SrtFilePath].content = Flatten([i \in 1..n |-> NumberedEntry(i)])

\* A finished run in which window 0 gave two segments and window 1 one: the
\* third subtitle, the first of window 1, carries number 3 and the SRT file
\* is complete.
C11_Witness ==
    /\ pc = "done"
    /\ Len(engine_log) = 2
    /\ Len(engine_log[1].segments) = 2
    /\ Len(engine_log[2].segments) = 1
    /\ Len(subtitles) = 3
    /\ subtitles[3].seq = 3
    /\ files[SrtFilePath].state = "complete"

====
